---- MODULE Spec2Model ----
(***************************************************************************)
(* A model of getPDB.py: the target normaliser (get_ttd_targets), the      *)
(* identifier resolver (convert_uniprot_ids), the cross-reference mapper   *)
(* (get_sifts_mapping), the quality filter (filter_pdbs_by_quality), the   *)
(* best-structure selector (group_and_select_best_structures) and the      *)
(* orchestrator (main).  Each function has a specification of its own      *)
(* (SpecTargets, SpecConvert, SpecSifts, SpecFilter, SpecSelect, SpecMain);*)
(* the variables of the other functions stay at rest in it.                *)
(*                                                                         *)
(* Resolutions are in hundredths of an angstrom: 300 is 3.0, 301 is 3.01.  *)
(***************************************************************************)
EXTENDS Integers, Sequences, FiniteSets, TLC

VARIABLES
    \* get_ttd_targets
    ttd_pc, content, uniprot_entry_names,
    \* convert_uniprot_ids
    conv_pc, entry_list, conv_batch, accession_codes, conv_log,
    \* get_sifts_mapping
    sifts_pc, sifts_df, target_uniprot_ids, uniprot_to_pdb_map,
    \* filter_pdbs_by_quality
    flt_pc, pdb_ids, flt_batch, high_quality_pdbs, flt_response, flt_reached,
    flt_before, flt_expected,
    \* group_and_select_best_structures
    sel_pc, high_quality_pdb_list, uniprot_map, best_structures,
    \* main
    main_pc, calls, target_entry_names, main_accession_codes, main_uniprot_to_pdb_map,
    all_pdb_ids, main_high_quality_pdb_list, best_structures_to_download

ttdVars == <<ttd_pc, content, uniprot_entry_names>>
convVars == <<conv_pc, entry_list, conv_batch, accession_codes, conv_log>>
siftsVars == <<sifts_pc, sifts_df, target_uniprot_ids, uniprot_to_pdb_map>>
fltVars == <<flt_pc, pdb_ids, flt_batch, high_quality_pdbs, flt_response, flt_reached,
             flt_before, flt_expected>>
selVars == <<sel_pc, high_quality_pdb_list, uniprot_map, best_structures>>
mainVars == <<main_pc, calls, target_entry_names, main_accession_codes,
              main_uniprot_to_pdb_map, all_pdb_ids, main_high_quality_pdb_list,
              best_structures_to_download>>
vars == <<ttdVars, convVars, siftsVars, fltVars, selVars, mainVars>>

(***************************************************************************)
(* Helpers on sequences.                                                   *)
(***************************************************************************)
Range(s) == {s[i] : i \in 1..Len(s)}

SeqsUpTo(S, n) == UNION {[1..k -> S] : k \in 0..n}

NoDup(s) == \A i, j \in 1..Len(s) : i # j => s[i] # s[j]

RECURSIVE Concat(_)
Concat(ss) == IF ss = <<>> THEN <<>> ELSE Head(ss) \o Concat(Tail(ss))

(***************************************************************************)
(* Configuration (getPDB.py 15-16).                                        *)
(***************************************************************************)
MAX_RESOLUTION == 300
EXPERIMENTAL_METHODS == {"X-RAY DIFFRACTION"}

(***************************************************************************)
(* group_and_select_best_structures (getPDB.py 210-233).                   *)
(***************************************************************************)
\* bounds of the selector's inputs
MaxHq == 3
MaxPerAcc == 2

\* str.upper() on the structure ids of the model
Upper(s) ==
    CASE s = "s1" -> "S1"
      [] s = "s2" -> "S2"
      [] s = "s3" -> "S3"
      [] OTHER -> s

\* structure ids as the cross-reference table spells them (in either case;
\* s3 is never among the accepted candidates), and as the metadata service
\* spells them (rcsb_id)
MapPdbIds == {"s1", "S2", "s3"}
HqPdbIds == {"S1", "S2"}
SelAccessions == {"P1", "P2"}
SelResolutions == {150, 200}

\* a dict is a record: its keys in insertion order, and its values
Dict(keys, val) == [keys |-> keys, val |-> val]
EmptyDict == [keys |-> <<>>, val |-> <<>>]
HasKey(d, k) == k \in Range(d.keys)
DictPut(d, k, v) ==
    IF HasKey(d, k)
    THEN [keys |-> d.keys,
          val |-> [x \in Range(d.keys) |-> IF x = k THEN v ELSE d.val[x]]]
    ELSE [keys |-> Append(d.keys, k),
          val |-> [x \in Range(d.keys) \cup {k} |-> IF x = k THEN v ELSE d.val[x]]]

\* the (pdb, uniprot) pairs in the order the comprehension of line 218
\* visits them: uniprot_map.items() in insertion order, each list in order
RECURSIVE MapPairs(_, _)
MapPairs(m, i) ==
    IF i > Len(m.keys) THEN <<>>
    ELSE [j \in 1..Len(m.val[m.keys[i]]) |->
              <<m.val[m.keys[i]][j], m.keys[i]>>] \o MapPairs(m, i + 1)

\* line 218: {pdb.upper(): uniprot for ...}; a later pair overwrites
RECURSIVE BuildReverse(_, _)
BuildReverse(pairs, d) ==
    IF pairs = <<>> THEN d
    ELSE BuildReverse(Tail(pairs), DictPut(d, Upper(Head(pairs)[1]), Head(pairs)[2]))

PdbToUniprotMap(m) == BuildReverse(MapPairs(m, 1), EmptyDict)

\* lines 220-225: group the accepted candidates by the accession the reverse
\* index gives them; a candidate with no accession is skipped
GroupStep(groups, uniprot_id, pdb_info) ==
    IF HasKey(groups, uniprot_id)
    THEN DictPut(groups, uniprot_id, Append(groups.val[uniprot_id], pdb_info))
    ELSE DictPut(groups, uniprot_id, <<pdb_info>>)

RECURSIVE GroupLoop(_, _, _)
GroupLoop(hq, rev, groups) ==
    IF hq = <<>> THEN groups
    ELSE LET pdb_info == Head(hq)
             key == Upper(pdb_info.pdb_id)
         IN  IF HasKey(rev, key) /\ rev.val[key] # ""
             THEN GroupLoop(Tail(hq), rev, GroupStep(groups, rev.val[key], pdb_info))
             ELSE GroupLoop(Tail(hq), rev, groups)

UniprotToPdbsInfo(hq, m) == GroupLoop(hq, PdbToUniprotMap(m), EmptyDict)

\* a min that keeps the last of the smallest elements
RECURSIVE PyMinLast(_, _)
PyMinLast(best, rest) ==
    IF rest = <<>> THEN best
    ELSE IF Head(rest).resolution <= best.resolution
         THEN PyMinLast(Head(rest), Tail(rest))
         ELSE PyMinLast(best, Tail(rest))

\* min(pdb_info_list, key=...): the first element whose key is smallest
RECURSIVE PyMin(_, _)
PyMin(best, rest) ==
    IF rest = <<>> THEN best
    ELSE IF Head(rest).resolution < best.resolution
         THEN PyMin(Head(rest), Tail(rest))
         ELSE PyMin(best, Tail(rest))

\* lines 210-213; None is the empty sequence, a record is <<record>>
SelectBestStructure(pdb_info_list) ==
    IF pdb_info_list = <<>> THEN <<>>
    ELSE <<PyMin(Head(pdb_info_list), Tail(pdb_info_list))>>

\* lines 226-231
RECURSIVE SelectLoop(_, _)
SelectLoop(groups, i) ==
    IF i > Len(groups.keys) THEN <<>>
    ELSE LET uniprot_id == groups.keys[i]
             best == SelectBestStructure(groups.val[uniprot_id])
         IN  (IF best = <<>> THEN <<>>
              ELSE <<[pdb_id |-> best[1].pdb_id, method |-> best[1].method,
                      resolution |-> best[1].resolution,
                      uniprot_id |-> uniprot_id]>>)
             \o SelectLoop(groups, i + 1)

\* a selector that emits every grouped candidate instead of the best one
RECURSIVE EveryGroupedCandidate(_, _)
EveryGroupedCandidate(hq, m) ==
    IF hq = <<>> THEN <<>>
    ELSE LET rev == PdbToUniprotMap(m)
             key == Upper(Head(hq).pdb_id)
         IN  (IF HasKey(rev, key)
              THEN <<[pdb_id |-> Head(hq).pdb_id, method |-> Head(hq).method,
                      resolution |-> Head(hq).resolution,
                      uniprot_id |-> rev.val[key]]>>
              ELSE <<>>)
             \o EveryGroupedCandidate(Tail(hq), m)

GroupAndSelectBestStructures(hq, m) == SelectLoop(UniprotToPdbsInfo(hq, m), 1)

\* the inputs of the selector
HqRecords ==
    [pdb_id : HqPdbIds, method : EXPERIMENTAL_METHODS, resolution : SelResolutions]

PdbLists == {s \in SeqsUpTo(MapPdbIds, MaxPerAcc) : NoDup(s)}

(***************************************************************************)
(* get_sifts_mapping (getPDB.py 146-166).                                  *)
(***************************************************************************)
\* bound of the cross-reference table
MaxRows == 3

\* a missing cell of the table, as read_csv gives it
NaN == "NaN"
SiftsPdbIds == {"s1", "s2"}
SiftsAccessions == {"P1", "P2", "P3"}
\* the order groupby sorts the accessions in
AccessionOrder == <<"P1", "P2", "P3">>

SiftsRows == [PDB : SiftsPdbIds \cup {NaN}, SP_PRIMARY : SiftsAccessions \cup {NaN}]

IsComplete(row) == row.PDB # NaN /\ row.SP_PRIMARY # NaN

\* line 161: sifts_df.dropna(inplace=True)
DropNa(df) == SelectSeq(df, IsComplete)

\* line 162: sifts_df[sifts_df['SP_PRIMARY'].isin(target_uniprot_ids)]
IsIn(df, targets) == SelectSeq(df, LAMBDA row : row.SP_PRIMARY \in targets)

\* a table that keeps its repeated rows
KeepDuplicates(df) == df

\* line 162: .drop_duplicates() keeps the first of equal rows
RECURSIVE DropDuplicates(_)
DropDuplicates(df) ==
    IF df = <<>> THEN <<>>
    ELSE LET init == DropDuplicates(SubSeq(df, 1, Len(df) - 1))
             last == df[Len(df)]
         IN  IF last \in Range(init) THEN init ELSE Append(init, last)

\* line 163: .groupby('SP_PRIMARY')['PDB'].apply(list).to_dict(): the groups
\* in sorted key order, each list in row order
GroupByToDict(df) ==
    LET present == {df[i].SP_PRIMARY : i \in 1..Len(df)}
        keys == SelectSeq(AccessionOrder, LAMBDA a : a \in present)
        pdbs(a) == LET rows == SelectSeq(df, LAMBDA row : row.SP_PRIMARY = a)
                   IN  [i \in 1..Len(rows) |-> rows[i].PDB]
    IN  Dict(keys, [a \in present |-> pdbs(a)])

\* lines 160-166
SiftsMapping(df, targets) == GroupByToDict(DropDuplicates(IsIn(DropNa(df), targets)))

(***************************************************************************)
(* filter_pdbs_by_quality (getPDB.py 168-208).                             *)
(***************************************************************************)
\* bounds of the filter's input; FilterBatchSize stands for batch_size = 500
\* of line 174, scaled down
MaxPdbIds == 3
FilterBatchSize == 2

IdPool == <<"1ABC", "2DEF", "3GHI", "4JKL", "5MNO">>

\* Python's None for a method is "None", for a resolution the empty sequence
NoMethod == "None"
NoResolution == <<>>

\* One entry of data["entries"].  null: the entry itself is None.  exptl is
\* missing, null, empty ([]) or a list whose first element holds method
\* (missing, null or a string).  info (rcsb_entry_info) is missing, null or
\* an object whose resolution_combined (rc) is missing, null, empty or a list
\* with first element resolution.
Entry(id, isnull, exptl, method, info, rc, resolution) ==
    [rcsb_id |-> id, null |-> isnull, exptl |-> exptl, method |-> method,
     info |-> info, rc |-> rc, resolution |-> resolution]

NullEntry(id) == Entry(id, TRUE, "missing", "missing", "missing", "missing", 0)

ExptlParts ==
    {<<"missing", "missing">>, <<"null", "missing">>, <<"empty", "missing">>,
     <<"list", "missing">>, <<"list", "null">>,
     <<"list", "X-RAY DIFFRACTION">>, <<"list", "SOLUTION NMR">>}

InfoParts ==
    {<<"missing", "missing", 0>>, <<"null", "missing", 0>>,
     <<"object", "missing", 0>>, <<"object", "null", 0>>, <<"object", "empty", 0>>,
     <<"object", "list", 200>>, <<"object", "list", 300>>, <<"object", "list", 301>>}

\* the entries the metadata service may return for id: a null entry, every
\* shape of the method part with a good resolution, and every shape of the
\* resolution part with each method
EntryShapes(id) ==
    {NullEntry(id)}
    \cup {Entry(id, FALSE, e[1], e[2], "object", "list", 200) : e \in ExptlParts}
    \cup {Entry(id, FALSE, "list", m, i[1], i[2], i[3]) :
            m \in {"X-RAY DIFFRACTION", "SOLUTION NMR"}, i \in InfoParts}

\* line 199: (entry.get("exptl") or [{}])[0].get("method")
MethodOf(entry) ==
    IF entry.exptl \in {"missing", "null", "empty"} THEN NoMethod
    ELSE IF entry.method \in {"missing", "null"} THEN NoMethod
    ELSE entry.method

\* line 200: entry.get("rcsb_entry_info", {}) gives None for a null value,
\* and None.get raises AttributeError
ResolutionRaises(entry) == entry.info = "null"

\* line 200: (....get("resolution_combined") or [None])[0]
ResolutionOf(entry) ==
    IF entry.info = "missing" THEN NoResolution
    ELSE IF entry.rc \in {"missing", "null", "empty"} THEN NoResolution
    ELSE <<entry.resolution>>

\* a threshold test that leaves the threshold itself out
QualityOkStrict(method, resolution) ==
    /\ method \in EXPERIMENTAL_METHODS
    /\ resolution # NoResolution
    /\ resolution[1] < MAX_RESOLUTION

\* line 201
QualityOk(method, resolution) ==
    /\ method \in EXPERIMENTAL_METHODS
    /\ resolution # NoResolution
    /\ resolution[1] <= MAX_RESOLUTION

\* lines 197-202 on the entries of one response: the list after them, how
\* many entries the loop reached, and whether an exception left the loop
RECURSIVE EntriesLoop(_, _, _)
EntriesLoop(entries, hq, reached) ==
    IF entries = <<>> THEN [hq |-> hq, reached |-> reached, raised |-> FALSE]
    ELSE LET entry == Head(entries)
         IN  IF entry.null
             THEN EntriesLoop(Tail(entries), hq, reached + 1)
             ELSE IF ResolutionRaises(entry)
             THEN [hq |-> hq, reached |-> reached + 1, raised |-> TRUE]
             ELSE IF QualityOk(MethodOf(entry), ResolutionOf(entry))
             THEN EntriesLoop(Tail(entries),
                      Append(hq, [pdb_id |-> entry.rcsb_id,
                                  method |-> MethodOf(entry),
                                  resolution |-> ResolutionOf(entry)[1]]),
                      reached + 1)
             ELSE EntriesLoop(Tail(entries), hq, reached + 1)

\* line 175: the batches of pdb_ids
NumFilterBatches(ids) == (Len(ids) + FilterBatchSize - 1) \div FilterBatchSize

FilterBatch(ids, b) ==
    SubSeq(ids, (b - 1) * FilterBatchSize + 1,
           IF b * FilterBatchSize < Len(ids) THEN b * FilterBatchSize ELSE Len(ids))

\* What comes back for one batch: requests.post raises (transport_error),
\* raise_for_status raises (http_error), response.json() raises
\* (unparseable), the body carries "errors" (graphql_errors), the body has
\* no data or no entries (no_data), or it has entries (ok).
FailureKinds == {"transport_error", "http_error", "unparseable", "graphql_errors"}

RECURSIVE EntryLists(_)
EntryLists(batch) ==
    IF batch = <<>> THEN {<<>>}
    ELSE {<<e>> \o rest : e \in EntryShapes(Head(batch)), rest \in EntryLists(Tail(batch))}

Responses(batch) ==
    {[kind |-> k, entries |-> <<>>] : k \in FailureKinds \cup {"no_data"}}
    \cup {[kind |-> "ok", entries |-> es] : es \in EntryLists(batch)}

NoResponse == [kind |-> "none", entries |-> <<>>]

\* the quality predicate as the specification words it: the method is the
\* accepted one and the first element of the resolution list is present and
\* at most 3.0
StatedAccepted(entry) ==
    /\ ~entry.null
    /\ entry.exptl = "list"
    /\ entry.method = "X-RAY DIFFRACTION"
    /\ entry.info = "object"
    /\ entry.rc = "list"
    /\ entry.resolution <= 300

StatedRecord(entry) ==
    [pdb_id |-> entry.rcsb_id, method |-> entry.method, resolution |-> entry.resolution]

StatedAcceptedOf(entries) ==
    LET kept == SelectSeq(entries, StatedAccepted)
    IN  [i \in 1..Len(kept) |-> StatedRecord(kept[i])]

(***************************************************************************)
(* convert_uniprot_ids (getPDB.py 116-144).                                *)
(***************************************************************************)
\* bounds of the resolver's input; ConvertBatchSize stands for
\* batch_size = 100 of line 123, scaled down
MaxNames == 3
ConvertBatchSize == 2

EntryNames == {"N1", "N2", "N3", "N4", "N5"}
ConvAccessions == {"P1", "P2"}
\* a result item with no "primaryAccession" field
NoAccession == "none"

\* line 125-126: the batches of entry_list
NumConvertBatches(names) == (Len(names) + ConvertBatchSize - 1) \div ConvertBatchSize

ConvertBatch(names, b) ==
    SubSeq(names, (b - 1) * ConvertBatchSize + 1,
           IF b * ConvertBatchSize < Len(names) THEN b * ConvertBatchSize ELSE Len(names))

\* What comes back for one batch.  requests.get raises (network_error),
\* raise_for_status raises (http_error) and response.json() raises on a body
\* that is not JSON (malformed): each is a RequestException (line 137).
\* Otherwise the body holds "results": at most size = len(batch) items.
ConvertFailureKinds == {"network_error", "http_error", "malformed"}

ResultLists(batch) == SeqsUpTo(ConvAccessions \cup {NoAccession}, Len(batch))

\* lines 134-136: add the primaryAccession of each item that has one
RECURSIVE AddAccessions(_, _)
AddAccessions(codes, results) ==
    IF results = <<>> THEN codes
    ELSE AddAccessions(IF Head(results) # NoAccession
                       THEN codes \cup {Head(results)} ELSE codes,
                       Tail(results))

\* a handler that leaves the loop: no batch after the failed one is queried
AfterFailureBreak(done, names) == NumConvertBatches(names)

\* lines 137-141: the handler ends in continue: with done batches behind it,
\* the loop goes on to the next one
AfterFailure(done, names) == done + 1

(***************************************************************************)
(* get_ttd_targets (getPDB.py 55-84).                                      *)
(***************************************************************************)
\* bound of the target-list text
MaxContent == 6

\* The text is a sequence of symbols: "M" is the marker UNIPROID, "SP" a
\* blank (space, tab, carriage return), "NL" a line feed, ";" the separator,
\* "a" and "b" identifier characters, and "H" the header text "Uniprot ID".
Symbols == {"M", "SP", "NL", ";", "a", "b", "H"}

\* \s of the pattern, and the characters str.strip() removes
IsSpace(c) == c \in {"SP", "NL"}

\* ^ under re.MULTILINE: the start of the text or just after a line feed
AtLineStart(text, p) == p = 1 \/ text[p - 1] = "NL"

\* the first index at or after p that holds no \s (Len + 1 when none)
RECURSIVE SkipSpace(_, _)
SkipSpace(text, p) ==
    IF p <= Len(text) /\ IsSpace(text[p]) THEN SkipSpace(text, p + 1) ELSE p

\* the first index at or after p that holds a line feed (Len + 1 when none):
\* . matches anything but a line feed
RECURSIVE LineEnd(_, _)
LineEnd(text, p) ==
    IF p <= Len(text) /\ text[p] # "NL" THEN LineEnd(text, p + 1) ELSE p

\* line 70: re.findall(r"^UNIPROID\s+(.*)", content, re.MULTILINE): the
\* captures of the successive matches, scanning from p.  \s+ is greedy and
\* (.*) may be empty, so a match takes every \s after the marker, line
\* feeds included, and then the rest of the line it has arrived in.
RECURSIVE FindAll(_, _)
FindAll(text, p) ==
    IF p > Len(text) THEN <<>>
    ELSE IF /\ AtLineStart(text, p)
            /\ text[p] = "M"
            /\ p + 1 <= Len(text)
            /\ IsSpace(text[p + 1])
         THEN LET q == SkipSpace(text, p + 1)
                  e == LineEnd(text, q)
              IN  <<SubSeq(text, q, e - 1)>> \o FindAll(text, e)
         ELSE FindAll(text, p + 1)

\* str.split(';'): the pieces between the separators, empty ones included
RECURSIVE Split(_)
Split(line) ==
    IF \A i \in 1..Len(line) : line[i] # ";" THEN <<line>>
    ELSE LET k == CHOOSE i \in 1..Len(line) :
                     line[i] = ";" /\ \A j \in 1..(i - 1) : line[j] # ";"
         IN  <<SubSeq(line, 1, k - 1)>> \o Split(SubSeq(line, k + 1, Len(line)))

\* str.strip()
RECURSIVE Strip(_)
Strip(s) ==
    IF s = <<>> THEN s
    ELSE IF IsSpace(s[1]) THEN Strip(Tail(s))
    ELSE IF IsSpace(s[Len(s)]) THEN Strip(SubSeq(s, 1, Len(s) - 1))
    ELSE s

\* str.lower(): only the header text has upper-case letters in the model
Lower(s) == [i \in 1..Len(s) |-> IF s[i] = "H" THEN "h" ELSE s[i]]

\* "uniprot id"
HeaderSentinel == <<"h">>

\* lines 72-77
TokensOfLine(line) ==
    {Strip(pid) : pid \in {t \in Range(Split(line)) :
        Strip(t) # <<>> /\ Lower(Strip(t)) # HeaderSentinel}}

\* lines 69-77
ExtractEntryNames(text) ==
    UNION {TokensOfLine(line) : line \in Range(FindAll(text, 1))}

\* The set as the specification words it: the lines of the text that begin
\* with the marker followed by a blank, the rest of each such line split on
\* ";", the pieces trimmed, and the empty pieces and the header sentinel
\* dropped.
RECURSIVE Lines(_)
Lines(text) ==
    IF \A i \in 1..Len(text) : text[i] # "NL" THEN <<text>>
    ELSE LET k == CHOOSE i \in 1..Len(text) :
                     text[i] = "NL" /\ \A j \in 1..(i - 1) : text[j] # "NL"
         IN  <<SubSeq(text, 1, k - 1)>> \o Lines(SubSeq(text, k + 1, Len(text)))

IsMarkerLine(line) == Len(line) >= 2 /\ line[1] = "M" /\ line[2] = "SP"

StatedEntryNames(text) ==
    UNION {TokensOfLine(SubSeq(line, 2, Len(line))) :
              line \in {l \in Range(Lines(text)) : IsMarkerLine(l)}}

(***************************************************************************)
(* main (getPDB.py 337-367).                                               *)
(***************************************************************************)
\* bounds of the values the stages hand to main
MainMaxRows == 2
MainMaxNames == 2

\* the functions main calls, in the order of lines 340-365
StageOrder ==
    <<"get_ttd_targets", "convert_uniprot_ids", "get_sifts_mapping",
      "filter_pdbs_by_quality", "group_and_select_best_structures",
      "download_pdb_files", "convert_structures">>

\* a value a stage returns: None, or the value v
None(empty) == [none |-> TRUE, v |-> empty]
Some(v) == [none |-> FALSE, v |-> v]

\* a test that stops on None only
IsNoneOnly(r) == r.none

\* "not x" of lines 351 and 354 for a list: None or empty
NotList(r) == r.none \/ r.v = <<>>

\* "not x" of lines 341 and 344 for a set
NotSet(r) == r.none \/ r.v = {}

\* "not x" of line 347 for a dict
NotDict(r) == r.none \/ r.v.keys = <<>>

\* line 349: list(set(pdb for pdbs in uniprot_to_pdb_map.values() for pdb in pdbs)):
\* the distinct ids of the mapping, in any order
AllPdbIdLists(m) ==
    LET ids == UNION {Range(m.val[a]) : a \in Range(m.keys)}
    IN  {s \in SeqsUpTo(ids, Cardinality(ids)) : NoDup(s) /\ Len(s) = Cardinality(ids)}

\* an rcsb_id the service answers with that the mapping does not list
UnlistedId == "9XYZ"

\* what filter_pdbs_by_quality can return for ids: for each id in order, no
\* record or an accepted record, its pdb_id the id as the service spells it
\* (or, for the first, an id the mapping does not list)
RECURSIVE FilterResults(_)
FilterResults(ids) ==
    IF ids = <<>> THEN {<<>>}
    ELSE LET rest == FilterResults(Tail(ids))
         IN  rest \cup
             {<<[pdb_id |-> Upper(Head(ids)), method |-> "X-RAY DIFFRACTION",
                 resolution |-> r]>> \o t : r \in SelResolutions, t \in rest}

FilterResultsOrUnlisted(ids) ==
    FilterResults(ids) \cup
    {<<[pdb_id |-> UnlistedId, method |-> "X-RAY DIFFRACTION", resolution |-> 200]>>}

(***************************************************************************)
(* The variables of a function that a specification does not run.          *)
(***************************************************************************)
SelRest ==
    /\ sel_pc = "rest"
    /\ high_quality_pdb_list = <<>>
    /\ uniprot_map = EmptyDict
    /\ best_structures = <<>>

SiftsRest ==
    /\ sifts_pc = "rest"
    /\ sifts_df = <<>>
    /\ target_uniprot_ids = {}
    /\ uniprot_to_pdb_map = EmptyDict

FilterRest ==
    /\ flt_pc = "rest"
    /\ pdb_ids = <<>>
    /\ flt_batch = 0
    /\ high_quality_pdbs = <<>>
    /\ flt_response = NoResponse
    /\ flt_reached = 0
    /\ flt_before = 0
    /\ flt_expected = <<>>

ConvertRest ==
    /\ conv_pc = "rest"
    /\ entry_list = <<>>
    /\ conv_batch = 0
    /\ accession_codes = {}
    /\ conv_log = <<>>

TargetsRest ==
    /\ ttd_pc = "rest"
    /\ content = <<>>
    /\ uniprot_entry_names = {}

MainRest ==
    /\ main_pc = "rest"
    /\ calls = <<>>
    /\ target_entry_names = [none |-> TRUE, v |-> {}]
    /\ main_accession_codes = [none |-> TRUE, v |-> {}]
    /\ main_uniprot_to_pdb_map = [none |-> TRUE, v |-> EmptyDict]
    /\ all_pdb_ids = <<>>
    /\ main_high_quality_pdb_list = [none |-> TRUE, v |-> <<>>]
    /\ best_structures_to_download = [none |-> TRUE, v |-> <<>>]

(***************************************************************************)
(* The selector as a state machine.                                        *)
(***************************************************************************)
InitSelect ==
    /\ TargetsRest /\ ConvertRest /\ SiftsRest /\ FilterRest /\ MainRest
    /\ sel_pc = "start"
    /\ high_quality_pdb_list \in SeqsUpTo(HqRecords, MaxHq)
    /\ \E keys \in {k \in SeqsUpTo(SelAccessions, Cardinality(SelAccessions)) : NoDup(k)} :
         \E val \in [Range(keys) -> PdbLists] : uniprot_map = Dict(keys, val)
    /\ best_structures = <<>>

GroupAndSelect ==
    /\ sel_pc = "start"
    /\ best_structures' = GroupAndSelectBestStructures(high_quality_pdb_list, uniprot_map)
    /\ sel_pc' = "done"
    /\ UNCHANGED <<high_quality_pdb_list, uniprot_map>>
    /\ UNCHANGED <<ttdVars, convVars, siftsVars, fltVars, mainVars>>

NextSelect == GroupAndSelect

SpecSelect == InitSelect /\ [][NextSelect]_vars

(***************************************************************************)
(* The cross-reference mapper as a state machine.                          *)
(***************************************************************************)
InitSifts ==
    /\ TargetsRest /\ ConvertRest /\ FilterRest /\ SelRest /\ MainRest
    /\ sifts_pc = "start"
    /\ sifts_df = <<>>
    /\ target_uniprot_ids \in SUBSET SiftsAccessions
    /\ uniprot_to_pdb_map = EmptyDict

\* lines 150-158: the table cannot be downloaded or parsed: return None
SiftsUnavailable ==
    /\ sifts_pc = "start"
    /\ sifts_pc' = "returned_none"
    /\ UNCHANGED <<sifts_df, target_uniprot_ids, uniprot_to_pdb_map>>
    /\ UNCHANGED <<ttdVars, convVars, fltVars, selVars, mainVars>>

\* lines 150-166 with a table read
GetSiftsMapping ==
    /\ sifts_pc = "start"
    /\ \E df \in SeqsUpTo(SiftsRows, MaxRows) :
         /\ sifts_df' = df
         /\ uniprot_to_pdb_map' = SiftsMapping(df, target_uniprot_ids)
    /\ sifts_pc' = "returned"
    /\ UNCHANGED target_uniprot_ids
    /\ UNCHANGED <<ttdVars, convVars, fltVars, selVars, mainVars>>

NextSifts == SiftsUnavailable \/ GetSiftsMapping

SpecSifts == InitSifts /\ [][NextSifts]_vars

(***************************************************************************)
(* The quality filter as a state machine: one step for each batch of the   *)
(* loop of line 177, and one for the return of line 208.  flt_batch counts *)
(* the batches queried.  flt_response, flt_reached, flt_before and         *)
(* flt_expected record history: the last response, how many of its entries *)
(* the loop reached, the length of the list before it, and the stated      *)
(* accepted candidates of the responses that carried entries.              *)
(***************************************************************************)
InitFilter ==
    /\ TargetsRest /\ ConvertRest /\ SiftsRest /\ SelRest /\ MainRest
    /\ flt_pc = "loop"
    /\ \E n \in 0..MaxPdbIds : pdb_ids = SubSeq(IdPool, 1, n)
    /\ flt_batch = 0
    /\ high_quality_pdbs = <<>>
    /\ flt_response = NoResponse
    /\ flt_reached = 0
    /\ flt_before = 0
    /\ flt_expected = <<>>

\* lines 188-194, 203-205: the batch fails; it is logged and the loop goes on
FilterBatchFails ==
    /\ flt_pc = "loop"
    /\ flt_batch < NumFilterBatches(pdb_ids)
    /\ \E k \in FailureKinds : flt_response' = [kind |-> k, entries |-> <<>>]
    /\ flt_batch' = flt_batch + 1
    /\ flt_reached' = 0
    /\ flt_before' = Len(high_quality_pdbs)
    /\ UNCHANGED <<flt_pc, pdb_ids, high_quality_pdbs, flt_expected>>
    /\ UNCHANGED <<ttdVars, convVars, siftsVars, selVars, mainVars>>

\* lines 188-202: the batch is answered; its entries are filtered
FilterBatchAnswered ==
    /\ flt_pc = "loop"
    /\ flt_batch < NumFilterBatches(pdb_ids)
    /\ \E r \in Responses(FilterBatch(pdb_ids, flt_batch + 1)) :
         /\ r.kind \in {"ok", "no_data"}
         /\ LET out == EntriesLoop(r.entries, high_quality_pdbs, 0)
            IN  /\ flt_response' = r
                /\ high_quality_pdbs' = out.hq
                /\ flt_reached' = out.reached
                /\ flt_pc' = IF out.raised THEN "raised" ELSE "loop"
                /\ flt_expected' = flt_expected \o StatedAcceptedOf(r.entries)
    /\ flt_batch' = flt_batch + 1
    /\ flt_before' = Len(high_quality_pdbs)
    /\ UNCHANGED pdb_ids
    /\ UNCHANGED <<ttdVars, convVars, siftsVars, selVars, mainVars>>

\* lines 207-208
FilterReturn ==
    /\ flt_pc = "loop"
    /\ flt_batch = NumFilterBatches(pdb_ids)
    /\ flt_pc' = "returned"
    /\ UNCHANGED <<pdb_ids, flt_batch, high_quality_pdbs, flt_response,
                   flt_reached, flt_before, flt_expected>>
    /\ UNCHANGED <<ttdVars, convVars, siftsVars, selVars, mainVars>>

NextFilter == FilterBatchFails \/ FilterBatchAnswered \/ FilterReturn

SpecFilter == InitFilter /\ [][NextFilter]_vars

(***************************************************************************)
(* The resolver as a state machine: one step for each batch of the loop of *)
(* line 125 and one for the return of line 144.  conv_batch counts the     *)
(* batches left behind; conv_log records each query: its batch, what came  *)
(* back, and the accessions the answer carried.                            *)
(***************************************************************************)
InitConvert ==
    /\ TargetsRest /\ SiftsRest /\ FilterRest /\ SelRest /\ MainRest
    /\ conv_pc = "loop"
    /\ entry_list \in {s \in SeqsUpTo(EntryNames, MaxNames) : NoDup(s)}
    /\ conv_batch = 0
    /\ accession_codes = {}
    /\ conv_log = <<>>

\* lines 130-133, 137-141: the request fails; warn and continue
ConvertBatchFails ==
    /\ conv_pc = "loop"
    /\ conv_batch < NumConvertBatches(entry_list)
    /\ \E k \in ConvertFailureKinds :
         conv_log' = Append(conv_log,
             [batch |-> ConvertBatch(entry_list, conv_batch + 1), kind |-> k,
              accessions |-> {}])
    /\ conv_batch' = AfterFailure(conv_batch, entry_list)
    /\ UNCHANGED <<conv_pc, entry_list, accession_codes>>
    /\ UNCHANGED <<ttdVars, siftsVars, fltVars, selVars, mainVars>>

\* lines 130-136: the request is answered
ConvertBatchAnswered ==
    /\ conv_pc = "loop"
    /\ conv_batch < NumConvertBatches(entry_list)
    /\ \E results \in ResultLists(ConvertBatch(entry_list, conv_batch + 1)) :
         /\ accession_codes' = AddAccessions(accession_codes, results)
         /\ conv_log' = Append(conv_log,
              [batch |-> ConvertBatch(entry_list, conv_batch + 1), kind |-> "ok",
               accessions |-> Range(results) \ {NoAccession}])
    /\ conv_batch' = conv_batch + 1
    /\ UNCHANGED <<conv_pc, entry_list>>
    /\ UNCHANGED <<ttdVars, siftsVars, fltVars, selVars, mainVars>>

\* lines 143-144
ConvertReturn ==
    /\ conv_pc = "loop"
    /\ conv_batch >= NumConvertBatches(entry_list)
    /\ conv_pc' = "returned"
    /\ UNCHANGED <<entry_list, conv_batch, accession_codes, conv_log>>
    /\ UNCHANGED <<ttdVars, siftsVars, fltVars, selVars, mainVars>>

NextConvert == ConvertBatchFails \/ ConvertBatchAnswered \/ ConvertReturn

SpecConvert == InitConvert /\ [][NextConvert]_vars

(***************************************************************************)
(* The target normaliser as a state machine.                               *)
(***************************************************************************)
InitTargets ==
    /\ ConvertRest /\ SiftsRest /\ FilterRest /\ SelRest /\ MainRest
    /\ ttd_pc = "start"
    /\ content = <<>>
    /\ uniprot_entry_names = {}

\* lines 61-67: the download fails: return None
TtdUnavailable ==
    /\ ttd_pc = "start"
    /\ ttd_pc' = "returned_none"
    /\ UNCHANGED <<content, uniprot_entry_names>>
    /\ UNCHANGED <<convVars, siftsVars, fltVars, selVars, mainVars>>

\* lines 61-84 with the text downloaded; None when no token is found
GetTtdTargets ==
    /\ ttd_pc = "start"
    /\ \E text \in SeqsUpTo(Symbols, MaxContent) :
         /\ content' = text
         /\ uniprot_entry_names' = ExtractEntryNames(text)
         /\ ttd_pc' = IF ExtractEntryNames(text) = {} THEN "parsed_none" ELSE "returned"
    /\ UNCHANGED <<convVars, siftsVars, fltVars, selVars, mainVars>>

NextTargets == TtdUnavailable \/ GetTtdTargets

SpecTargets == InitTargets /\ [][NextTargets]_vars

(***************************************************************************)
(* main as a state machine: one step for each call of a stage together     *)
(* with the test that follows it.  calls records the functions invoked.    *)
(***************************************************************************)
InitMain ==
    /\ TargetsRest /\ ConvertRest /\ SiftsRest /\ FilterRest /\ SelRest
    /\ main_pc = "get_ttd_targets"
    /\ calls = <<>>
    /\ target_entry_names = None({})
    /\ main_accession_codes = None({})
    /\ main_uniprot_to_pdb_map = None(EmptyDict)
    /\ all_pdb_ids = <<>>
    /\ main_high_quality_pdb_list = None(<<>>)
    /\ best_structures_to_download = None(<<>>)

MainOthersUnchanged == UNCHANGED <<ttdVars, convVars, siftsVars, fltVars, selVars>>

\* lines 340-341: get_ttd_targets returns None or a non-empty set
CallGetTtdTargets ==
    /\ main_pc = "get_ttd_targets"
    /\ calls' = Append(calls, "get_ttd_targets")
    /\ \E r \in {None({})} \cup
                {Some(s) : s \in {t \in SUBSET EntryNames :
                                    t # {} /\ Cardinality(t) <= MainMaxNames}} :
         /\ target_entry_names' = r
         /\ main_pc' = IF NotSet(r) THEN "returned" ELSE "convert_uniprot_ids"
    /\ UNCHANGED <<main_accession_codes, main_uniprot_to_pdb_map, all_pdb_ids,
                   main_high_quality_pdb_list, best_structures_to_download>>
    /\ MainOthersUnchanged

\* lines 343-344: convert_uniprot_ids returns a set, possibly empty
CallConvertUniprotIds ==
    /\ main_pc = "convert_uniprot_ids"
    /\ calls' = Append(calls, "convert_uniprot_ids")
    /\ \E r \in {Some(s) : s \in SUBSET SelAccessions} :
         /\ main_accession_codes' = r
         /\ main_pc' = IF NotSet(r) THEN "returned" ELSE "get_sifts_mapping"
    /\ UNCHANGED <<target_entry_names, main_uniprot_to_pdb_map, all_pdb_ids,
                   main_high_quality_pdb_list, best_structures_to_download>>
    /\ MainOthersUnchanged

\* lines 346-347: get_sifts_mapping returns None or the mapping of a table
CallGetSiftsMapping ==
    /\ main_pc = "get_sifts_mapping"
    /\ calls' = Append(calls, "get_sifts_mapping")
    /\ \E r \in {None(EmptyDict)} \cup
                {Some(SiftsMapping(df, main_accession_codes.v)) :
                    df \in SeqsUpTo(SiftsRows, MainMaxRows)} :
         /\ main_uniprot_to_pdb_map' = r
         /\ main_pc' = IF NotDict(r) THEN "returned" ELSE "filter_pdbs_by_quality"
    /\ UNCHANGED <<target_entry_names, main_accession_codes, all_pdb_ids,
                   main_high_quality_pdb_list, best_structures_to_download>>
    /\ MainOthersUnchanged

\* lines 349-351: filter_pdbs_by_quality returns a list, possibly empty
CallFilterPdbsByQuality ==
    /\ main_pc = "filter_pdbs_by_quality"
    /\ calls' = Append(calls, "filter_pdbs_by_quality")
    /\ \E ids \in AllPdbIdLists(main_uniprot_to_pdb_map.v) :
         /\ all_pdb_ids' = ids
         /\ \E hq \in FilterResultsOrUnlisted(ids) :
              /\ main_high_quality_pdb_list' = Some(hq)
              /\ main_pc' = IF NotList(Some(hq)) THEN "returned"
                            ELSE "group_and_select_best_structures"
    /\ UNCHANGED <<target_entry_names, main_accession_codes, main_uniprot_to_pdb_map,
                   best_structures_to_download>>
    /\ MainOthersUnchanged

\* lines 349-350: an exception leaves filter_pdbs_by_quality (line 200), and
\* main with it
CallFilterPdbsByQualityRaises ==
    /\ main_pc = "filter_pdbs_by_quality"
    /\ calls' = Append(calls, "filter_pdbs_by_quality")
    /\ \E ids \in AllPdbIdLists(main_uniprot_to_pdb_map.v) : all_pdb_ids' = ids
    /\ main_pc' = "raised"
    /\ UNCHANGED <<target_entry_names, main_accession_codes, main_uniprot_to_pdb_map,
                   main_high_quality_pdb_list, best_structures_to_download>>
    /\ MainOthersUnchanged

\* lines 353-354
CallGroupAndSelect ==
    /\ main_pc = "group_and_select_best_structures"
    /\ calls' = Append(calls, "group_and_select_best_structures")
    /\ LET r == Some(GroupAndSelectBestStructures(main_high_quality_pdb_list.v,
                                                  main_uniprot_to_pdb_map.v))
       IN  /\ best_structures_to_download' = r
           /\ main_pc' = IF NotList(r) THEN "returned" ELSE "download_pdb_files"
    /\ UNCHANGED <<target_entry_names, main_accession_codes, main_uniprot_to_pdb_map,
                   all_pdb_ids, main_high_quality_pdb_list>>
    /\ MainOthersUnchanged

\* line 357
CallDownloadPdbFiles ==
    /\ main_pc = "download_pdb_files"
    /\ calls' = Append(calls, "download_pdb_files")
    /\ main_pc' = "convert_structures"
    /\ UNCHANGED <<target_entry_names, main_accession_codes, main_uniprot_to_pdb_map,
                   all_pdb_ids, main_high_quality_pdb_list, best_structures_to_download>>
    /\ MainOthersUnchanged

\* lines 360-367
CallConvertStructures ==
    /\ main_pc = "convert_structures"
    /\ calls' = Append(calls, "convert_structures")
    /\ main_pc' = "finished"
    /\ UNCHANGED <<target_entry_names, main_accession_codes, main_uniprot_to_pdb_map,
                   all_pdb_ids, main_high_quality_pdb_list, best_structures_to_download>>
    /\ MainOthersUnchanged

NextMain ==
    \/ CallGetTtdTargets
    \/ CallConvertUniprotIds
    \/ CallGetSiftsMapping
    \/ CallFilterPdbsByQuality
    \/ CallFilterPdbsByQualityRaises
    \/ CallGroupAndSelect
    \/ CallDownloadPdbFiles
    \/ CallConvertStructures

SpecMain == InitMain /\ [][NextMain]_vars

(***************************************************************************)
(* Claims on the selector.                                                 *)
(***************************************************************************)
\* the accession the reverse index gives each accepted candidate, "" when
\* it gives none
Lookups ==
    LET rev == PdbToUniprotMap(uniprot_map)
    IN  [k \in 1..Len(high_quality_pdb_list) |->
            LET key == Upper(high_quality_pdb_list[k].pdb_id)
            IN  IF HasKey(rev, key) THEN rev.val[key] ELSE ""]

\* the accepted candidate hq[k] is listed, case-insensitively, under acc
ListedUnder(k, acc) ==
    /\ HasKey(uniprot_map, acc)
    /\ \E j \in 1..Len(uniprot_map.val[acc]) :
         Upper(uniprot_map.val[acc][j]) = Upper(high_quality_pdb_list[k].pdb_id)

SameCandidate(r, c) ==
    /\ r.pdb_id = c.pdb_id
    /\ r.method = c.method
    /\ r.resolution = c.resolution

RecordsOf(acc) == {i \in 1..Len(best_structures) : best_structures[i].uniprot_id = acc}

\* C1: the output holds at most one record per accession, and every record
\* is a real accepted candidate listed under its accession in the mapping:
\* an accession with no accepted candidate has no record, null or otherwise.
C1_AtMostOnePerAccession ==
    sel_pc = "done" =>
        LET lookup == Lookups
        IN  /\ \A i, j \in 1..Len(best_structures) :
                 i # j => best_structures[i].uniprot_id # best_structures[j].uniprot_id
            /\ \A i \in 1..Len(best_structures) :
                 \E k \in 1..Len(high_quality_pdb_list) :
                    /\ SameCandidate(best_structures[i], high_quality_pdb_list[k])
                    /\ ListedUnder(k, best_structures[i].uniprot_id)
            /\ \A acc \in SelAccessions :
                 (\A k \in 1..Len(high_quality_pdb_list) : lookup[k] # acc)
                    => RecordsOf(acc) = {}

\* two different candidates grouped under one accession give one record,
\* and a key of the mapping none of whose ids was accepted gives none
C1_Witness ==
    /\ sel_pc = "done"
    /\ Len(best_structures) = 1
    /\ \E i, j \in 1..Len(high_quality_pdb_list) :
         /\ high_quality_pdb_list[i].pdb_id # high_quality_pdb_list[j].pdb_id
         /\ Lookups[i] = best_structures[1].uniprot_id
         /\ Lookups[j] = best_structures[1].uniprot_id
    /\ \E acc \in Range(uniprot_map.keys) :
         /\ RecordsOf(acc) = {}
         /\ uniprot_map.val[acc] # <<>>
         /\ \A k \in 1..Len(high_quality_pdb_list) : ~ListedUnder(k, acc)

\* C2: every accession key of the mapping with at least one listed structure
\* id among the accepted candidates gets exactly one record, chosen among
\* its own accepted candidates, also when an id is listed under several keys.
C2_OnePerAccessionWithCandidate ==
    sel_pc = "done" =>
        \A acc \in Range(uniprot_map.keys) :
            (\E k \in 1..Len(high_quality_pdb_list) : ListedUnder(k, acc))
              => /\ Cardinality(RecordsOf(acc)) = 1
                 /\ \A i \in RecordsOf(acc) :
                      \E k \in 1..Len(high_quality_pdb_list) :
                         /\ ListedUnder(k, acc)
                         /\ SameCandidate(best_structures[i], high_quality_pdb_list[k])

\* C3: the record of an accession is the candidate of its group with the
\* smallest resolution, the first of them in the accepted-candidates list
\* when several share it.
C3_MinResolutionFirstOnTies ==
    sel_pc = "done" =>
        LET lookup == Lookups
            hq == high_quality_pdb_list
        IN  \A acc \in SelAccessions :
                (\E k \in 1..Len(hq) : lookup[k] = acc)
                  => \E i \in RecordsOf(acc) :
                       \E k \in 1..Len(hq) :
                          /\ lookup[k] = acc
                          /\ SameCandidate(best_structures[i], hq[k])
                          /\ \A j \in 1..Len(hq) :
                               lookup[j] = acc
                                 => /\ hq[k].resolution <= hq[j].resolution
                                    /\ hq[j].resolution = hq[k].resolution => k <= j

\* two different candidates of one group tie on the smallest resolution and
\* the earlier one is the record
C3_Witness ==
    /\ sel_pc = "done"
    /\ LET lookup == Lookups
           hq == high_quality_pdb_list
       IN  \E i, j \in 1..Len(hq) :
             /\ i < j
             /\ hq[i].pdb_id # hq[j].pdb_id
             /\ hq[i].resolution = hq[j].resolution
             /\ lookup[i] = lookup[j]
             /\ lookup[i] # ""
             /\ \A k \in 1..Len(hq) :
                  lookup[k] = lookup[i] => hq[i].resolution <= hq[k].resolution
             /\ \E r \in RecordsOf(lookup[i]) : best_structures[r].pdb_id = hq[i].pdb_id

(***************************************************************************)
(* Claims on the cross-reference mapper.                                   *)
(***************************************************************************)
\* the structure ids paired with accession a in complete rows of the table
PairedWith(a) ==
    {sifts_df[i].PDB : i \in {j \in 1..Len(sifts_df) :
        IsComplete(sifts_df[j]) /\ sifts_df[j].SP_PRIMARY = a}}

\* C8: the keys of the returned mapping are exactly the target accessions
\* that occur in a complete row, and each key lists exactly the distinct
\* structure ids paired with it: no key with an empty list, no merging.
C8_SiftsMappingExact ==
    sifts_pc = "returned" =>
        /\ Range(uniprot_to_pdb_map.keys) =
             {a \in target_uniprot_ids : PairedWith(a) # {}}
        /\ NoDup(uniprot_to_pdb_map.keys)
        /\ \A a \in Range(uniprot_to_pdb_map.keys) :
             /\ Range(uniprot_to_pdb_map.val[a]) = PairedWith(a)
             /\ NoDup(uniprot_to_pdb_map.val[a])
             /\ uniprot_to_pdb_map.val[a] # <<>>

\* a structure id paired with two target accessions (one pair repeated) is
\* listed once under both, and a target with no row is not a key
C8_Witness ==
    /\ sifts_pc = "returned"
    /\ \E i, j, k \in 1..Len(sifts_df) :
         /\ i # j /\ j # k /\ i # k
         /\ sifts_df[i] = [PDB |-> "s1", SP_PRIMARY |-> "P1"]
         /\ sifts_df[j] = [PDB |-> "s1", SP_PRIMARY |-> "P2"]
         /\ sifts_df[k] = sifts_df[i]
    /\ target_uniprot_ids = {"P1", "P2", "P3"}
    /\ uniprot_to_pdb_map.keys = <<"P1", "P2">>
    /\ uniprot_to_pdb_map.val["P1"] = <<"s1">>
    /\ uniprot_to_pdb_map.val["P2"] = <<"s1">>

(***************************************************************************)
(* Claims on the quality filter.                                           *)
(***************************************************************************)
\* the entries of the last response that lines 198-202 were run on
ReachedEntries == SubSeq(flt_response.entries, 1, flt_reached)

\* the records appended while the last response was filtered
AppendedRecords == SubSeq(high_quality_pdbs, flt_before + 1, Len(high_quality_pdbs))

C5_BatchFailureIsolation ==
    /\ flt_pc # "raised"
    /\ flt_pc = "returned" =>
         /\ flt_batch = NumFilterBatches(pdb_ids)
         /\ high_quality_pdbs = flt_expected

\* an entry that is null or lacks its method list, its resolution list or
\* an enclosing object
Deficient(entry) ==
    \/ entry.null
    \/ entry.exptl \in {"missing", "null", "empty"}
    \/ entry.method \in {"missing", "null"}
    \/ entry.info \in {"missing", "null"}
    \/ entry.rc \in {"missing", "null", "empty"}

\* C6: a null entry, or one whose method list, resolution list or enclosing
\* object is missing, null or empty, is rejected without an error, and the
\* rest of the batch and the later batches are still processed.
C6_DeficientEntryRejectedQuietly ==
    (flt_response.kind = "ok"
       /\ \E i \in 1..Len(flt_response.entries) : Deficient(flt_response.entries[i]))
      => /\ flt_pc # "raised"
         /\ flt_reached = Len(flt_response.entries)
         /\ \A i \in 1..Len(flt_response.entries) :
              Deficient(flt_response.entries[i])
                => \A k \in 1..Len(AppendedRecords) :
                     AppendedRecords[k].pdb_id # flt_response.entries[i].rcsb_id

C10_ExtractsMarkerLinesOnly ==
    ttd_pc \in {"returned", "parsed_none"} =>
        uniprot_entry_names = StatedEntryNames(content)

(***************************************************************************)
(* Claims on main.                                                         *)
(***************************************************************************)
\* whether the k-th of the first five stages returned None or nothing
StageReturnedNothing(k) ==
    CASE k = 1 -> target_entry_names.none \/ target_entry_names.v = {}
      [] k = 2 -> main_accession_codes.none \/ main_accession_codes.v = {}
      [] k = 3 -> main_uniprot_to_pdb_map.none
                    \/ main_uniprot_to_pdb_map.v.keys = <<>>
      [] k = 4 -> main_high_quality_pdb_list.none
                    \/ main_high_quality_pdb_list.v = <<>>
      [] k = 5 -> best_structures_to_download.none
                    \/ best_structures_to_download.v = <<>>

\* C7: the stages are invoked in the fixed order, and a stage is invoked
\* only when each of the first five stages before it returned a non-empty
\* result: after a None or an empty result no later stage is invoked.
C7_StagesInOrderAndShortCircuit ==
    /\ Len(calls) <= Len(StageOrder)
    /\ \A k \in 1..Len(calls) : calls[k] = StageOrder[k]
    /\ \A k \in 2..Len(calls) :
         \A j \in 1..(IF k - 1 < 5 THEN k - 1 ELSE 5) : ~StageReturnedNothing(j)

\* the filter returned an empty list and main returned without calling the
\* selector, the download or the conversion
C7_Witness ==
    /\ main_pc = "returned"
    /\ Len(calls) = 4
    /\ ~main_high_quality_pdb_list.none
    /\ main_high_quality_pdb_list.v = <<>>

====
